---- MODULE Spec2Model ----
(***************************************************************************)
(* One run of scripts/python/system_info.py: the command line is parsed,   *)
(* get_system_info() queries the host step by step, main() dispatches on   *)
(* --format / --output, and the __main__ block turns the outcome into an   *)
(* exit status.  The host (psutil, platform, the file system, the user's   *)
(* Ctrl-C) is the environment: each query returns or raises                *)
(* nondeterministically.                                                   *)
(***************************************************************************)
EXTENDS Integers, Sequences, FiniteSets, TLC

VARIABLES
    argv,            \* the command line: [format, output], "none" = option not given
    args,            \* argparse namespace after parse_args()
    RICH_AVAILABLE,  \* module flag, line 32-37
    YAML_AVAILABLE,  \* module flag, line 39-43
    pc,              \* position of the run
    info,            \* the dict built by get_system_info()
    locals,          \* values of the cpu dict literal evaluated so far
    partitions,      \* list returned by psutil.disk_partitions()
    idx,             \* position of the for loop over partitions
    calls,           \* history: how often each host query was issued
    freqLog,         \* history: what each psutil.cpu_freq() call returned
    usageLog,        \* history: one entry per psutil.disk_usage() call
    selected,        \* branch of main()'s if/elif chain that was entered
    file,            \* the output file
    stdout,          \* what was printed
    invoked,         \* history: renderers called (format_table / format_text)
    log,             \* records emitted through logger
    exc,             \* exception in flight
    failure,         \* history: the step at which an Exception was raised
    interrupted,     \* history: a KeyboardInterrupt was raised in main()
    exitStatus       \* <<>> while running, then <<status>>

vars == <<argv, args, RICH_AVAILABLE, YAML_AVAILABLE, pc, info, locals,
          partitions, idx, calls, freqLog, usageLog, selected, file, stdout, invoked,
          log, exc, failure, interrupted, exitStatus>>

-----------------------------------------------------------------------------
(* Bounds of the model *)

\* longest partition list the host returns
MaxParts == 3
\* longest flattened list of interface addresses the host returns
MaxAddrs == 2

-----------------------------------------------------------------------------
(* Host facts the queries can return *)

None == "None"

\* choices=[...] of --format, line 235
FormatChoices == {"json", "yaml", "table", "text"}

\* --output values; a path is the sequence of the dot-separated parts of its
\* file name ("report.json" is <<"report", "json">>), <<>> is no path
OutputPaths ==
    { <<"report", "json">>, <<"system", "yaml">>, <<"system", "yml">>,
      <<"report", "txt">> }

\* what psutil.cpu_freq() can report, in hundredths of a MHz; the current
\* frequency is a measured zero
Frequencies == { [max |-> 340000, current |-> 0] }

\* psutil.cpu_freq() returning None
NoFrequency == [kind |-> "None", max |-> 0, current |-> 0]

\* psutil.cpu_freq() raising
FrequencyError == [kind |-> "raise", max |-> 0, current |-> 0]

\* results of one psutil.cpu_freq() call that returns
CpuFreqResults ==
    {NoFrequency} \cup
    { [kind |-> "value", max |-> f.max, current |-> f.current] : f \in Frequencies }

\* outcomes of one psutil.disk_usage() call
UsageOutcomes == {"ok", "PermissionError", "OSError"}

\* the k-th partition of the host with what disk_usage reports for it (sizes
\* in MiB, percent in tenths)
PartitionAt(k) ==
    [device |-> "/dev/sd" \o ToString(k), mountpoint |-> "/mnt/" \o ToString(k),
     fstype |-> "ext4", total |-> 476940 * k, used |-> 1536 * k,
     free |-> 475404 * k, percent |-> 3]

\* the lists psutil.disk_partitions() can return
PartitionLists == { [k \in 1..n |-> PartitionAt(k)] : n \in 0..MaxParts }

\* address entries of psutil.net_if_addrs(), flattened in iteration order
Addresses ==
    { [interface |-> "lo", family |-> 2, address |-> "127.0.0.1",
       netmask |-> "255.0.0.0"],
      [interface |-> "eth0", family |-> 10, address |-> "fe80::1",
       netmask |-> "ffff:ffff:ffff:ffff::"],
      [interface |-> "eth0", family |-> 17, address |-> "52:54:00:12:34:56",
       netmask |-> None] }

\* psutil.virtual_memory() of the host (sizes in MiB, percent in tenths)
HostMemory ==
    [total |-> 16384, available |-> 7680, used |-> 8704, percent |-> 531]

SeqsUpTo(S, n) == UNION { [1..k -> S] : k \in 0..n }

-----------------------------------------------------------------------------
(* Pure helpers *)

\* format(x, ".2f") for x given in hundredths
Fixed2(h) ==
    ToString(h \div 100) \o "." \o
    (IF h % 100 < 10 THEN "0" ELSE "") \o ToString(h % 100)

\* f"{x:.2f} MHz"
FormatMHz(h) == Fixed2(h) \o " MHz"

\* round(bytes / (1024 ** 3), 2) for a size given in MiB, result in
\* hundredths of a GiB
RoundGiB(mib) == (mib * 100 + 512) \div 1024

\* str() of a float that has at most two decimals, given in hundredths
FloatStr(h) ==
    ToString(h \div 100) \o "." \o
    (IF h % 10 = 0 THEN ToString((h % 100) \div 10)
     ELSE (IF h % 100 < 10 THEN "0" ELSE "") \o ToString(h % 100))

\* str() of a percentage given in tenths
PercentStr(t) == ToString(t \div 10) \o "." \o ToString(t % 10)

\* the dict appended for one partition, lines 102-110
DiskRecord(p) ==
    [device |-> p.device, mountpoint |-> p.mountpoint, fstype |-> p.fstype,
     total_gb |-> RoundGiB(p.total), used_gb |-> RoundGiB(p.used),
     free_gb |-> RoundGiB(p.free), percent_used |-> p.percent]

\* addr.family == 2, line 117
IsIPv4(a) == a.family = 2

\* the dict appended for one address, lines 118-122
NetRecord(a) ==
    [interface |-> a.interface, address |-> a.address, netmask |-> a.netmask]

\* the network loop, lines 115-122
NetworkRecords(addrs) ==
    LET ipv4 == SelectSeq(addrs, IsIPv4)
    IN  [k \in 1..Len(ipv4) |-> NetRecord(ipv4[k])]

\* the dict literal of lines 60-67
EmptyInfo ==
    [timestamp |-> "2026-01-01T00:00:00",
     system |-> None, cpu |-> None, memory |-> None,
     disk |-> <<>>, network |-> <<>>]

\* lines 70-78
SystemDict ==
    [hostname |-> "devbox", platform |-> "Linux",
     platform_release |-> "6.1.0", platform_version |-> "#1 SMP",
     architecture |-> "x86_64", processor |-> "x86_64",
     python_version |-> "3.11.4"]

\* lines 91-96
MemoryDict(m) ==
    [total_gb |-> RoundGiB(m.total), available_gb |-> RoundGiB(m.available),
     used_gb |-> RoundGiB(m.used), percent_used |-> m.percent]

NoLocals ==
    [physical_cores |-> 0, total_cores |-> 0,
     max_frequency |-> None, current_frequency |-> None]

NoCalls ==
    [platform |-> 0, cores_physical |-> 0, cores_logical |-> 0,
     cpu_percent |-> 0, virtual_memory |-> 0, disk_partitions |-> 0,
     net_if_addrs |-> 0]

NoFile == [opens |-> 0, isOpen |-> FALSE, writes |-> 0, content |-> <<>>]

\* argparse: default='table' when --format is not given, lines 233-244
ParseArgs(av) ==
    [format |-> IF av.format = "none" THEN "table" ELSE av.format,
     output |-> av.output]

\* the namespace before parse_args() has run
NoArgs == [format |-> None, output |-> <<>>]

\* variant: the else value is a formatted zero
NotAvailable_Zero == FormatMHz(0)

\* the else value of the conditional expressions of lines 84-85
NotAvailable == "N/A"

\* Path(...).suffix, line 265 and 270
Suffix(path) ==
    IF Len(path) > 1 THEN "." \o path[Len(path)] ELSE ""


-----------------------------------------------------------------------------
(* Renderers *)

\* json.dump(info, f, indent=2) / json.dumps(info, indent=2)
JsonDumps(i) == [enc |-> "json", style |-> "indent=2", data |-> i]

\* yaml.dump(info, default_flow_style=False)
YamlDump(i) == [enc |-> "yaml", style |-> "block", data |-> i]

\* key.replace('_', ' ').title() on the keys of the snapshot
Title(key) ==
    CASE key = "hostname" -> "Hostname"
      [] key = "platform" -> "Platform"
      [] key = "platform_release" -> "Platform Release"
      [] key = "platform_version" -> "Platform Version"
      [] key = "architecture" -> "Architecture"
      [] key = "processor" -> "Processor"
      [] key = "python_version" -> "Python Version"
      [] key = "physical_cores" -> "Physical Cores"
      [] key = "total_cores" -> "Total Cores"
      [] key = "max_frequency" -> "Max Frequency"
      [] key = "current_frequency" -> "Current Frequency"
      [] key = "cpu_usage_percent" -> "Cpu Usage Percent"
      [] key = "total_gb" -> "Total Gb"
      [] key = "available_gb" -> "Available Gb"
      [] key = "used_gb" -> "Used Gb"
      [] key = "percent_used" -> "Percent Used"

\* insertion order of the dicts, which .items() follows
SystemKeys ==
    <<"hostname", "platform", "platform_release", "platform_version",
      "architecture", "processor", "python_version">>
CpuKeys ==
    <<"physical_cores", "total_cores", "max_frequency", "current_frequency",
      "cpu_usage_percent">>
MemoryKeys == <<"total_gb", "available_gb", "used_gb", "percent_used">>

\* str(value) of the entries of info['cpu'] and info['memory']
CpuValue(i, key) ==
    CASE key \in {"physical_cores", "total_cores"} -> ToString(i.cpu[key])
      [] key = "cpu_usage_percent" -> PercentStr(i.cpu[key])
      [] OTHER -> i.cpu[key]
MemoryValue(i, key) ==
    IF key = "percent_used" THEN PercentStr(i.memory[key])
    ELSE FloatStr(i.memory[key])

\* what the body of format_text prints for one disk, lines 223-227
DiskLines(d) ==
    << "\nDevice: " \o d.device,
       "  Mount: " \o d.mountpoint,
       "  Total: " \o FloatStr(d.total_gb) \o " GB",
       "  Used: " \o FloatStr(d.used_gb) \o " GB (" \o PercentStr(d.percent_used) \o "%)",
       "  Free: " \o FloatStr(d.free_gb) \o " GB" >>

RECURSIVE Flatten(_)
Flatten(ss) == IF ss = <<>> THEN <<>> ELSE Head(ss) \o Flatten(Tail(ss))

\* the lines format_text prints, lines 205-227
FormatText(i) ==
    << "\n=== SYSTEM INFORMATION ===",
       "Hostname: " \o i.system.hostname,
       "Timestamp: " \o i.timestamp \o "\n",
       "--- System ---" >>
    \o [k \in 1..Len(SystemKeys) |->
            Title(SystemKeys[k]) \o ": " \o i.system[SystemKeys[k]]]
    \o << "\n--- CPU ---" >>
    \o [k \in 1..Len(CpuKeys) |->
            Title(CpuKeys[k]) \o ": " \o CpuValue(i, CpuKeys[k])]
    \o << "\n--- Memory ---" >>
    \o [k \in 1..Len(MemoryKeys) |->
            Title(MemoryKeys[k]) \o ": " \o MemoryValue(i, MemoryKeys[k])]
    \o << "\n--- Disks ---" >>
    \o Flatten([k \in 1..Len(i.disk) |-> DiskLines(i.disk[k])])

\* a row of the disk table, lines 186-193
DiskRow(d) ==
    d.device \o " | " \o d.mountpoint \o " | " \o FloatStr(d.total_gb) \o " | "
    \o FloatStr(d.used_gb) \o " | " \o FloatStr(d.free_gb) \o " | "
    \o PercentStr(d.percent_used) \o "%"

\* what format_table sends to the rich console, lines 139-195: one entry per
\* console.print of a text, and per table its title, header and rows
RichTables(i) ==
    << "\n[bold yellow]=== SYSTEM INFORMATION ===[/bold yellow]",
       "Hostname: " \o i.system.hostname,
       "Timestamp: " \o i.timestamp \o "\n",
       "System Details", "Property | Value" >>
    \o [k \in 1..(Len(SystemKeys) - 1) |->
            Title(SystemKeys[k + 1]) \o " | " \o i.system[SystemKeys[k + 1]]]
    \o << "\nCPU Information", "Property | Value" >>
    \o [k \in 1..Len(CpuKeys) |->
            Title(CpuKeys[k]) \o " | " \o CpuValue(i, CpuKeys[k])]
    \o << "\nMemory Information", "Property | Value" >>
    \o [k \in 1..Len(MemoryKeys) |->
            Title(MemoryKeys[k]) \o " | " \o MemoryValue(i, MemoryKeys[k])]
    \o << "\nDisk Information",
          "Device | Mount | Total GB | Used GB | Free GB | Used %" >>
    \o [k \in 1..Len(i.disk) |-> DiskRow(i.disk[k])]

\* line 135
RichNotice == "Rich library not available. Install with: pip install rich"

\* what format_table itself prints, lines 134-195
FormatTablePrints(i, rich) ==
    IF ~rich THEN <<RichNotice>> ELSE RichTables(i)

\* variant: format_table returns after the notice without calling format_text
FormatTableNext_NoFallback(rich) == "returned"

\* where format_table goes after printing: lines 136-137 call format_text and
\* return, otherwise the function ends at line 195
FormatTableNext(rich) ==
    IF ~rich THEN "format_text" ELSE "returned"

-----------------------------------------------------------------------------
(* main()'s dispatch *)

\* the if/elif/else chain of lines 265-281
FileBranch(format, suffix) ==
    IF format = "json" \/ suffix = ".json" THEN "json_dump"
    ELSE IF format = "yaml" \/ suffix \in {".yaml", ".yml"} THEN "yaml_dump"
    ELSE "json_write"

\* the if/elif/else chain of lines 284-294
StdoutBranch(format) ==
    CASE format = "json" -> "print_json"
      [] format = "yaml" -> "print_yaml"
      [] format = "table" -> "format_table"
      [] OTHER -> "format_text"

\* variant: the output path is not consulted
SelectBranch_IgnoresOutput(a) == StdoutBranch(a.format)

\* `if args.output:` line 262
SelectBranch(a) ==
    IF a.output # <<>> THEN FileBranch(a.format, Suffix(a.output))
    ELSE StdoutBranch(a.format)

\* branches that write to the file opened at lines 266, 274, 279
FileBranches == {"json_dump", "yaml_dump", "json_write"}

\* branches guarded by `if not YAML_AVAILABLE`, lines 271 and 287
YamlBranches == {"yaml_dump", "print_yaml"}

\* variant: the availability guard never fires
YamlMissing_Never(available) == FALSE

\* the guard of lines 271 and 287
YamlMissing(available) == ~available

\* the encoder each branch applies
Encode(branch, i) ==
    IF branch \in YamlBranches THEN YamlDump(i) ELSE JsonDumps(i)

\* variant: no except clause, a PermissionError leaves the loop
UsageHandler_NoExcept(outcome) ==
    IF outcome = "ok" THEN "append" ELSE "raise"

\* variant: `except Exception: continue`, every failure is skipped
UsageHandler_CatchAll(outcome) ==
    IF outcome = "ok" THEN "append" ELSE "continue"

\* the try/except of lines 100-112 around one disk_usage call: what the loop
\* body does with the outcome of the call
UsageHandler(outcome) ==
    CASE outcome = "ok" -> "append"
      [] outcome = "PermissionError" -> "continue"
      [] OTHER -> "raise"

\* variant: `except (Exception, KeyboardInterrupt)`
MainCatches_Interrupt(e) == e \in {"Exception", "KeyboardInterrupt"}

\* `except Exception` of line 296: SystemExit and KeyboardInterrupt derive
\* from BaseException only and pass through
MainCatches(e) == e = "Exception"

LogRecord(level, msg) == [level |-> level, msg |-> msg]
YamlErrorMsg == "YAML support not available. Install with: pip install pyyaml"
CollectErrorMsg == "Error collecting system information"
CancelMsg == "\nOperation cancelled by user"
UnexpectedMsg == "Unexpected error"
SavedMsg == "System information saved"

-----------------------------------------------------------------------------
Init ==
    /\ argv \in [format : FormatChoices \cup {"none"},
                 output : OutputPaths \cup {<<>>}]
    /\ args = NoArgs
    /\ RICH_AVAILABLE \in BOOLEAN
    /\ YAML_AVAILABLE \in BOOLEAN
    /\ pc = "parse_args"
    /\ info = EmptyInfo
    /\ locals = NoLocals
    /\ partitions = <<>>
    /\ idx = 0
    /\ calls = NoCalls
    /\ freqLog = <<>>
    /\ usageLog = <<>>
    /\ selected = None
    /\ file = NoFile
    /\ stdout = <<>>
    /\ invoked = <<>>
    /\ log = <<>>
    /\ exc = None
    /\ failure = None
    /\ interrupted = FALSE
    /\ exitStatus = <<>>

\* raise inside main()'s try block: control leaves the current statement with
\* an exception in flight; a with-block closes its file on the way out
\* (lines 266, 274, 279)
Raise(e) ==
    /\ exc' = e
    /\ pc' = "raised"
    /\ file' = [file EXCEPT !.isOpen = FALSE]
    /\ failure' = IF e = "Exception" THEN pc ELSE failure

Count(q) == calls' = [calls EXCEPT ![q] = @ + 1]

\* lines 252-257: parse_args(), then logger.info("Collecting ...")
DoParseArgs ==
    /\ pc = "parse_args"
    /\ args' = ParseArgs(argv)
    /\ log' = Append(log, LogRecord("INFO", "Collecting system information..."))
    /\ pc' = "system"
    /\ UNCHANGED <<argv, RICH_AVAILABLE, YAML_AVAILABLE, info, locals,
                   partitions, idx, calls, freqLog, usageLog, selected, file,
                   stdout, invoked, exc, failure, interrupted, exitStatus>>

\* lines 60-78: the info dict and the platform.* queries
QuerySystem ==
    /\ pc = "system"
    /\ Count("platform")
    /\ \/ /\ info' = [EmptyInfo EXCEPT !.system = SystemDict]
          /\ pc' = "physical_cores"
          /\ UNCHANGED <<exc, file, failure>>
       \/ /\ Raise("Exception")
          /\ UNCHANGED info
    /\ UNCHANGED <<argv, args, RICH_AVAILABLE, YAML_AVAILABLE, locals,
                   partitions, idx, freqLog, usageLog, selected, stdout,
                   invoked, log, interrupted, exitStatus>>

\* lines 82-83: psutil.cpu_count(logical=False), psutil.cpu_count(logical=True)
QueryCpuCount ==
    /\ pc \in {"physical_cores", "total_cores"}
    /\ Count(IF pc = "physical_cores" THEN "cores_physical" ELSE "cores_logical")
    /\ \/ /\ locals' = [locals EXCEPT ![pc] = IF pc = "physical_cores" THEN 4 ELSE 8]
          /\ pc' = IF pc = "physical_cores" THEN "total_cores" ELSE "max_frequency_if"
          /\ UNCHANGED <<exc, file, failure>>
       \/ /\ Raise("Exception")
          /\ UNCHANGED locals
    /\ UNCHANGED <<argv, args, RICH_AVAILABLE, YAML_AVAILABLE, info,
                   partitions, idx, freqLog, usageLog, selected, stdout,
                   invoked, log, interrupted, exitStatus>>

\* lines 84-85, the condition `if psutil.cpu_freq()` of either conditional
\* expression: a falsy result selects the else value, a truthy one leads to
\* the evaluation of the f-string
CpuFreqTest ==
    /\ pc \in {"max_frequency_if", "current_frequency_if"}
    /\ \/ \E r \in CpuFreqResults :
            /\ freqLog' = Append(freqLog, r)
            /\ IF r = NoFrequency
               THEN /\ locals' = [locals EXCEPT
                         ![IF pc = "max_frequency_if" THEN "max_frequency"
                           ELSE "current_frequency"] = NotAvailable]
                    /\ pc' = IF pc = "max_frequency_if"
                             THEN "current_frequency_if" ELSE "cpu_percent"
               ELSE /\ pc' = IF pc = "max_frequency_if"
                             THEN "max_frequency" ELSE "current_frequency"
                    /\ UNCHANGED locals
            /\ UNCHANGED <<exc, file, failure>>
       \/ /\ freqLog' = Append(freqLog, FrequencyError)
          /\ Raise("Exception")
          /\ UNCHANGED locals
    /\ UNCHANGED <<argv, args, RICH_AVAILABLE, YAML_AVAILABLE, info,
                   partitions, idx, calls, usageLog, selected, stdout,
                   invoked, log, interrupted, exitStatus>>

\* lines 84-85, the f-string f"{psutil.cpu_freq().max:.2f} MHz" (or .current):
\* a second call; None has no attribute max/current (AttributeError)
CpuFreqValue ==
    /\ pc \in {"max_frequency", "current_frequency"}
    /\ \E r \in CpuFreqResults :
         /\ freqLog' = Append(freqLog, r)
         /\ IF r = NoFrequency
            THEN /\ Raise("Exception")
                 /\ UNCHANGED locals
            ELSE /\ locals' = [locals EXCEPT ![pc] =
                        FormatMHz(IF pc = "max_frequency" THEN r.max
                                  ELSE r.current)]
                 /\ pc' = IF pc = "max_frequency"
                          THEN "current_frequency_if" ELSE "cpu_percent"
                 /\ UNCHANGED <<exc, file, failure>>
    /\ UNCHANGED <<argv, args, RICH_AVAILABLE, YAML_AVAILABLE, info,
                   partitions, idx, calls, usageLog, selected, stdout,
                   invoked, log, interrupted, exitStatus>>

\* lines 81-87: psutil.cpu_percent(interval=1), then the assignment of the
\* finished dict literal to info['cpu'] (percent in tenths)
QueryCpuPercent ==
    /\ pc = "cpu_percent"
    /\ Count("cpu_percent")
    /\ \/ /\ info' = [info EXCEPT !.cpu =
                 [physical_cores |-> locals.physical_cores,
                  total_cores |-> locals.total_cores,
                  max_frequency |-> locals.max_frequency,
                  current_frequency |-> locals.current_frequency,
                  cpu_usage_percent |-> 125]]
          /\ pc' = "memory"
          /\ UNCHANGED <<exc, file, failure>>
       \/ /\ Raise("Exception")
          /\ UNCHANGED info
    /\ UNCHANGED <<argv, args, RICH_AVAILABLE, YAML_AVAILABLE, locals,
                   partitions, idx, freqLog, usageLog, selected, stdout,
                   invoked, log, interrupted, exitStatus>>

\* lines 90-96: psutil.virtual_memory()
QueryMemory ==
    /\ pc = "memory"
    /\ Count("virtual_memory")
    /\ \/ /\ info' = [info EXCEPT !.memory = MemoryDict(HostMemory)]
          /\ pc' = "disk_partitions"
          /\ UNCHANGED <<exc, file, failure>>
       \/ /\ Raise("Exception")
          /\ UNCHANGED info
    /\ UNCHANGED <<argv, args, RICH_AVAILABLE, YAML_AVAILABLE, locals,
                   partitions, idx, freqLog, usageLog, selected, stdout,
                   invoked, log, interrupted, exitStatus>>

\* line 99: psutil.disk_partitions(), evaluated once before the loop and
\* outside the try of the loop body
QueryPartitions ==
    /\ pc = "disk_partitions"
    /\ Count("disk_partitions")
    /\ \/ \E ps \in PartitionLists :
            /\ partitions' = ps
            /\ idx' = 1
            /\ pc' = "disk_loop"
            /\ UNCHANGED <<exc, file, failure>>
       \/ /\ Raise("Exception")
          /\ UNCHANGED <<partitions, idx>>
    /\ UNCHANGED <<argv, args, RICH_AVAILABLE, YAML_AVAILABLE, info, locals,
                   freqLog, usageLog, selected, stdout, invoked, log,
                   interrupted, exitStatus>>

\* lines 99-112: one pass of the loop body.  PermissionError is caught and the
\* loop continues; anything else leaves get_system_info().
DiskLoop ==
    /\ pc = "disk_loop"
    /\ IF idx > Len(partitions)
       THEN /\ pc' = "network"
            /\ UNCHANGED <<info, idx, usageLog, exc, file, failure>>
       ELSE \E outcome \in UsageOutcomes :
              /\ usageLog' = Append(usageLog, [index |-> idx, outcome |-> outcome])
              /\ CASE UsageHandler(outcome) = "append" ->
                        /\ info' = [info EXCEPT !.disk =
                               Append(@, DiskRecord(partitions[idx]))]
                        /\ idx' = idx + 1
                        /\ UNCHANGED <<pc, exc, file, failure>>
                   [] UsageHandler(outcome) = "continue" ->
                        /\ idx' = idx + 1
                        /\ UNCHANGED <<info, pc, exc, file, failure>>
                   [] OTHER ->
                        /\ Raise("Exception")
                        /\ UNCHANGED <<info, idx>>
    /\ UNCHANGED <<argv, args, RICH_AVAILABLE, YAML_AVAILABLE, locals,
                   partitions, calls, freqLog, selected, stdout, invoked, log,
                   interrupted, exitStatus>>

\* lines 115-124: psutil.net_if_addrs(), the IPv4 filter, return info
QueryNetwork ==
    /\ pc = "network"
    /\ Count("net_if_addrs")
    /\ \/ \E addrs \in SeqsUpTo(Addresses, MaxAddrs) :
            /\ info' = [info EXCEPT !.network = NetworkRecords(addrs)]
            /\ pc' = "select"
            /\ UNCHANGED <<exc, file, failure>>
       \/ /\ Raise("Exception")
          /\ UNCHANGED info
    /\ UNCHANGED <<argv, args, RICH_AVAILABLE, YAML_AVAILABLE, locals,
                   partitions, idx, freqLog, usageLog, selected, stdout,
                   invoked, log, interrupted, exitStatus>>

\* lines 262-294: the branch of main() that is entered
Select ==
    /\ pc = "select"
    /\ selected' = SelectBranch(args)
    /\ pc' = CASE selected' \in YamlBranches -> "yaml_check"
               [] selected' \in FileBranches -> "open"
               [] selected' = "print_json" -> "print"
               [] OTHER -> selected'
    /\ UNCHANGED <<argv, args, RICH_AVAILABLE, YAML_AVAILABLE, info, locals,
                   partitions, idx, calls, freqLog, usageLog, file, stdout,
                   invoked, log, exc, failure, interrupted, exitStatus>>

\* lines 271-272 and 287-288: `if not YAML_AVAILABLE: logger.error(...)`
YamlCheck ==
    /\ pc = "yaml_check"
    /\ IF YamlMissing(YAML_AVAILABLE)
       THEN /\ log' = Append(log, LogRecord("ERROR", YamlErrorMsg))
            /\ pc' = "sys_exit"
       ELSE /\ pc' = IF selected \in FileBranches THEN "open" ELSE "print"
            /\ UNCHANGED log
    /\ UNCHANGED <<argv, args, RICH_AVAILABLE, YAML_AVAILABLE, info, locals,
                   partitions, idx, calls, freqLog, usageLog, selected, file,
                   stdout, invoked, exc, failure, interrupted, exitStatus>>

\* lines 273, 289, 298: sys.exit(1) raises SystemExit
SysExit ==
    /\ pc = "sys_exit"
    /\ Raise("SystemExit")
    /\ UNCHANGED <<argv, args, RICH_AVAILABLE, YAML_AVAILABLE, info, locals,
                   partitions, idx, calls, freqLog, usageLog, selected,
                   stdout, invoked, log, interrupted, exitStatus>>

\* lines 266, 274, 279: output_path.open('w') creates or truncates the file,
\* or raises OSError
OpenFile ==
    /\ pc = "open"
    /\ \/ /\ file' = [file EXCEPT !.opens = @ + 1, !.isOpen = TRUE,
                                  !.content = <<>>]
          /\ pc' = "write"
          /\ UNCHANGED <<exc, failure>>
       \/ Raise("Exception")
    /\ UNCHANGED <<argv, args, RICH_AVAILABLE, YAML_AVAILABLE, info, locals,
                   partitions, idx, calls, freqLog, usageLog, selected,
                   stdout, invoked, log, interrupted, exitStatus>>

\* lines 267, 275, 280: the encoded snapshot is written, or the write raises
WriteFile ==
    /\ pc = "write"
    /\ \/ /\ file' = [file EXCEPT !.writes = @ + 1,
                                  !.content = Append(@, Encode(selected, info))]
          /\ pc' = "close"
          /\ UNCHANGED <<exc, failure>>
       \/ Raise("Exception")
    /\ UNCHANGED <<argv, args, RICH_AVAILABLE, YAML_AVAILABLE, info, locals,
                   partitions, idx, calls, freqLog, usageLog, selected,
                   stdout, invoked, log, interrupted, exitStatus>>

\* end of the with block, then lines 268, 276, 281, then main() returns
CloseFile ==
    /\ pc = "close"
    /\ file' = [file EXCEPT !.isOpen = FALSE]
    /\ log' = Append(log, LogRecord("INFO", SavedMsg))
    /\ pc' = "returned"
    /\ UNCHANGED <<argv, args, RICH_AVAILABLE, YAML_AVAILABLE, info, locals,
                   partitions, idx, calls, freqLog, usageLog, selected,
                   stdout, invoked, exc, failure, interrupted, exitStatus>>

\* lines 285 and 290: print(json.dumps(...)) / print(yaml.dump(...))
PrintEncoded ==
    /\ pc = "print"
    /\ stdout' = Append(stdout, Encode(selected, info))
    /\ pc' = "returned"
    /\ UNCHANGED <<argv, args, RICH_AVAILABLE, YAML_AVAILABLE, info, locals,
                   partitions, idx, calls, freqLog, usageLog, selected, file,
                   invoked, log, exc, failure, interrupted, exitStatus>>

\* line 292 and lines 134-195: format_table(info)
CallFormatTable ==
    /\ pc = "format_table"
    /\ invoked' = Append(invoked, "format_table")
    /\ stdout' = stdout \o FormatTablePrints(info, RICH_AVAILABLE)
    /\ pc' = FormatTableNext(RICH_AVAILABLE)
    /\ UNCHANGED <<argv, args, RICH_AVAILABLE, YAML_AVAILABLE, info, locals,
                   partitions, idx, calls, freqLog, usageLog, selected, file,
                   log, exc, failure, interrupted, exitStatus>>

\* line 294 or line 136, and lines 205-227: format_text(info)
CallFormatText ==
    /\ pc = "format_text"
    /\ invoked' = Append(invoked, "format_text")
    /\ stdout' = stdout \o FormatText(info)
    /\ pc' = "returned"
    /\ UNCHANGED <<argv, args, RICH_AVAILABLE, YAML_AVAILABLE, info, locals,
                   partitions, idx, calls, freqLog, usageLog, selected, file,
                   log, exc, failure, interrupted, exitStatus>>

\* Ctrl-C while main() executes: KeyboardInterrupt is raised at the statement
\* being executed
Interrupt ==
    /\ pc \notin {"returned", "done"}
    /\ ~(pc = "raised" /\ exc = "KeyboardInterrupt")
    /\ interrupted' = TRUE
    /\ Raise("KeyboardInterrupt")
    /\ UNCHANGED <<argv, args, RICH_AVAILABLE, YAML_AVAILABLE, info, locals,
                   partitions, idx, calls, freqLog, usageLog, selected,
                   stdout, invoked, log, exitStatus>>

\* lines 296-297: the handler of main() logs the error
MainExcept ==
    /\ pc = "raised"
    /\ MainCatches(exc)
    /\ log' = Append(log, LogRecord("ERROR", CollectErrorMsg))
    /\ exc' = None
    /\ pc' = "sys_exit"
    /\ UNCHANGED <<argv, args, RICH_AVAILABLE, YAML_AVAILABLE, info, locals,
                   partitions, idx, calls, freqLog, usageLog, selected, file,
                   stdout, invoked, failure, interrupted, exitStatus>>

\* lines 301-303 with no exception: the interpreter exits with status 0
ExitNormally ==
    /\ pc = "returned"
    /\ exitStatus' = <<0>>
    /\ pc' = "done"
    /\ UNCHANGED <<argv, args, RICH_AVAILABLE, YAML_AVAILABLE, info, locals,
                   partitions, idx, calls, freqLog, usageLog, selected, file,
                   stdout, invoked, log, exc, failure, interrupted>>

\* lines 304-309: an exception leaves main() and reaches the __main__ block.
\* KeyboardInterrupt is logged as a cancellation and exits 0; an Exception is
\* logged and exits 1; SystemExit(1) raised by main() is matched by neither
\* except clause and ends the process with its code.
MainBlock ==
    /\ pc = "raised"
    /\ ~MainCatches(exc)
    /\ CASE exc = "KeyboardInterrupt" ->
              /\ log' = Append(log, LogRecord("INFO", CancelMsg))
              /\ exitStatus' = <<0>>
         [] exc = "Exception" ->
              /\ log' = Append(log, LogRecord("ERROR", UnexpectedMsg))
              /\ exitStatus' = <<1>>
         [] OTHER ->
              /\ exitStatus' = <<1>>
              /\ UNCHANGED log
    /\ pc' = "done"
    /\ UNCHANGED <<argv, args, RICH_AVAILABLE, YAML_AVAILABLE, info, locals,
                   partitions, idx, calls, freqLog, usageLog, selected, file,
                   stdout, invoked, exc, failure, interrupted>>

Next ==
    \/ DoParseArgs
    \/ QuerySystem
    \/ QueryCpuCount
    \/ CpuFreqTest
    \/ CpuFreqValue
    \/ QueryCpuPercent
    \/ QueryMemory
    \/ QueryPartitions
    \/ DiskLoop
    \/ QueryNetwork
    \/ Select
    \/ YamlCheck
    \/ SysExit
    \/ OpenFile
    \/ WriteFile
    \/ CloseFile
    \/ PrintEncoded
    \/ CallFormatTable
    \/ CallFormatText
    \/ Interrupt
    \/ MainExcept
    \/ ExitNormally
    \/ MainBlock

Spec == Init /\ [][Next]_vars

-----------------------------------------------------------------------------
(* Properties *)

Finished == pc = "done"

\* main() got past get_system_info() and entered a branch of its dispatch
Dispatched == selected # None

\* the run ended with neither an Exception nor an interrupt
CompletedNormally ==
    Finished /\ exitStatus = <<0>> /\ ~interrupted /\ failure = None

ErrorRecords == SelectSeq(log, LAMBDA r : r.level = "ERROR")

HasLogged(level, msg) ==
    \E k \in 1..Len(log) : log[k] = LogRecord(level, msg)

YamlSuffixes == {".yaml", ".yml"}

\* C1: with an output path and an explicit --format json or --format yaml, the
\* encoding written to the file is the one --format names, whatever the
\* extension of the path.
C1_ExplicitFormatDecidesEncoding ==
    (argv.format \in {"json", "yaml"} /\ file.content # <<>>)
        => file.content[1].enc = argv.format

\* C2: with --format yaml and no YAML support, for every output path, nothing
\* is written to stdout or to a file in any encoding, and a run that reaches
\* the dispatch without interrupt ends with the YAML error logged and status 1.
C2_YamlUnavailableNeverWrites ==
    (argv.format = "yaml" /\ ~YAML_AVAILABLE)
        => /\ file.content = <<>>
           /\ stdout = <<>>
           /\ (Finished /\ Dispatched /\ ~interrupted /\ failure = None)
                => /\ exitStatus = <<1>>
                   /\ HasLogged("ERROR", YamlErrorMsg)

\* C3: with an output path ending in .yaml or .yml, no --format given and no
\* YAML support, the output file is never opened, and a run that reaches the
\* dispatch without interrupt logs the YAML error and exits with status 1.
C3_YamlPathWithoutYaml ==
    (argv.format = "none" /\ argv.output # <<>>
     /\ Suffix(argv.output) \in YamlSuffixes /\ ~YAML_AVAILABLE)
        => /\ file.opens = 0
           /\ file.content = <<>>
           /\ (Finished /\ Dispatched /\ ~interrupted)
                => /\ exitStatus = <<1>>
                   /\ ErrorRecords = <<LogRecord("ERROR", YamlErrorMsg)>>

C3_Witness ==
    /\ argv.format = "none" /\ argv.output = <<"system", "yaml">>
    /\ ~YAML_AVAILABLE
    /\ Finished /\ Dispatched /\ ~interrupted
    /\ exitStatus = <<1>>
    /\ HasLogged("ERROR", YamlErrorMsg)

\* the usage queries that returned, in the order they were issued
OkUsages == SelectSeq(usageLog, LAMBDA e : e.outcome = "ok")

\* C4: the disk sequence holds one record for each partition whose usage
\* query did not fail, in enumeration order; a permission failure neither
\* leaves the loop nor is logged, and the partitions after it are queried.
C4_PermissionFailuresSkipped ==
    /\ Len(info.disk) = Len(OkUsages)
    /\ \A k \in 1..Len(OkUsages) :
         /\ info.disk[k].device = partitions[OkUsages[k].index].device
         /\ info.disk[k].mountpoint = partitions[OkUsages[k].index].mountpoint
    /\ \A k \in 1..Len(usageLog) : usageLog[k].index = k
    /\ (\A k \in 1..Len(usageLog) : usageLog[k].outcome # "OSError")
         => /\ failure # "disk_loop"
            /\ (pc = "disk_loop" => ErrorRecords = <<>> /\ idx = Len(usageLog) + 1)
    /\ (Dispatched /\ failure = None) => Len(usageLog) = Len(partitions)

C4_Witness ==
    /\ pc = "select"
    /\ Len(partitions) = 3
    /\ usageLog = << [index |-> 1, outcome |-> "ok"],
                     [index |-> 2, outcome |-> "PermissionError"],
                     [index |-> 3, outcome |-> "ok"] >>
    /\ Len(info.disk) = 2
    /\ info.disk[1].device = "/dev/sd1" /\ info.disk[2].device = "/dev/sd3"
    /\ ErrorRecords = <<>>

\* the steps of get_system_info()
CollectionSteps ==
    {"system", "physical_cores", "total_cores", "max_frequency_if",
     "max_frequency", "current_frequency_if", "current_frequency",
     "cpu_percent", "memory", "disk_partitions", "disk_loop", "network"}

\* a query failed other than by a permission failure of a usage query
CollectionFailed ==
    \/ failure \in CollectionSteps
    \/ \E k \in 1..Len(usageLog) : usageLog[k].outcome = "OSError"

\* C5: after a collection failure other than a partition's permission failure
\* no snapshot is emitted (nothing printed, no renderer called, no file
\* opened), the error is logged at most once, and an uninterrupted run ends
\* with exactly one error record and status 1.
C5_CollectionFailureEndsRun ==
    CollectionFailed
        => /\ stdout = <<>>
           /\ invoked = <<>>
           /\ file.opens = 0
           /\ ~Dispatched
           /\ Len(ErrorRecords) <= 1
           /\ (Finished /\ ~interrupted)
                => /\ exitStatus = <<1>>
                   /\ ErrorRecords = <<LogRecord("ERROR", CollectErrorMsg)>>

C5_Witness ==
    /\ Finished /\ ~interrupted
    /\ failure = "disk_loop"
    /\ usageLog[Len(usageLog)].outcome = "OSError"
    /\ exitStatus = <<1>>
    /\ Len(ErrorRecords) = 1

\* C6: once a KeyboardInterrupt was raised in main(), control is never in the
\* error handler of main(): the exception stays in flight until the __main__
\* block logs the cancellation notice as its last record and exits with 0.
C6_InterruptCancels ==
    interrupted
        => IF Finished
           THEN /\ exitStatus = <<0>>
                /\ log[Len(log)] = LogRecord("INFO", CancelMsg)
           ELSE pc = "raised" /\ exc = "KeyboardInterrupt"

\* an interrupt that arrived during the file write
C6_Witness ==
    /\ interrupted /\ Finished
    /\ file.opens = 1 /\ file.writes = 0
    /\ exitStatus = <<0>>
    /\ HasLogged("INFO", CancelMsg)

\* C7: no host query is issued more than once during a run, and a run that
\* returned a snapshot issued each of them exactly once.
C7_EveryQueryOnce ==
    /\ \A q \in DOMAIN calls : calls[q] <= 1
    /\ Len(freqLog) <= 1
    /\ \A j, k \in 1..Len(usageLog) :
         usageLog[j].index = usageLog[k].index => j = k
    /\ Dispatched
         => /\ \A q \in DOMAIN calls : calls[q] = 1
            /\ Len(freqLog) = 1
            /\ Len(usageLog) = Len(partitions)

\* C8: with format table, no output path and no rich library, format_table
\* prints its notice and then exactly what format_text prints for the
\* snapshot, section by section, and the run ends with status 0 and no error.
C8_TableFallsBackToText ==
    (args.format = "table" /\ args.output = <<>> /\ ~RICH_AVAILABLE
     /\ Finished /\ ~interrupted /\ failure = None)
        => /\ invoked = <<"format_table", "format_text">>
           /\ Head(stdout) = RichNotice
           /\ Tail(stdout) = FormatText(info)
           /\ \A h \in {"--- System ---", "\n--- CPU ---", "\n--- Memory ---",
                        "\n--- Disks ---",
                        "Max Frequency: " \o info.cpu.max_frequency} :
                \E k \in 1..Len(stdout) : stdout[k] = h
           /\ exitStatus = <<0>>
           /\ ErrorRecords = <<>>

C8_Witness ==
    /\ argv.format = "table" /\ argv.output = <<>> /\ ~RICH_AVAILABLE
    /\ CompletedNormally
    /\ Len(info.disk) = 2
    /\ Len(stdout) = 34
    /\ stdout[2] = "\n=== SYSTEM INFORMATION ==="
    /\ stdout[34] = "  Free: 928.52 GB"

AllFreqCalls(kind) ==
    /\ freqLog # <<>>
    /\ \A k \in 1..Len(freqLog) : freqLog[k].kind = kind

\* the text of a reported frequency (hundredths of a MHz)
ExpectedMHz(h) ==
    CASE h = 0 -> "0.00 MHz"
      [] h = 340000 -> "3400.00 MHz"

\* C9: in a returned snapshot, if every cpu_freq() call returned None both
\* frequency fields are "N/A" (and not "0.00 MHz"); if every call reported a
\* frequency both fields are the formatted reported values, never "N/A".
\* Neither case makes a frequency step of the collection fail.
C9_FrequencySentinel ==
    /\ Dispatched =>
         /\ AllFreqCalls("None")
              => /\ info.cpu.max_frequency = "N/A"
                 /\ info.cpu.current_frequency = "N/A"
                 /\ info.cpu.max_frequency # "0.00 MHz"
                 /\ info.cpu.current_frequency # "0.00 MHz"
         /\ AllFreqCalls("value")
              => /\ Len(freqLog) = 4
                 /\ info.cpu.max_frequency = ExpectedMHz(freqLog[2].max)
                 /\ info.cpu.current_frequency = ExpectedMHz(freqLog[4].current)
                 /\ info.cpu.max_frequency # "N/A"
                 /\ info.cpu.current_frequency # "N/A"
    /\ (AllFreqCalls("None") \/ AllFreqCalls("value"))
         => failure \notin {"max_frequency_if", "max_frequency",
                            "current_frequency_if", "current_frequency"}

C9_Witness ==
    /\ Dispatched
    /\ AllFreqCalls("None")
    /\ Len(freqLog) = 2
    /\ info.cpu.max_frequency = "N/A"

\* C10: a run with an output path that completes normally has opened the
\* file once, written it once and closed it, has called no renderer and
\* printed nothing; with format table or text and an extension other than
\* .json/.yaml/.yml the content is the JSON encoding of the snapshot.
\* Without an output path no file is ever opened.
C10_OutputPathWritesOneFile ==
    /\ (argv.output # <<>> /\ CompletedNormally)
         => /\ file.opens = 1
            /\ file.writes = 1
            /\ ~file.isOpen
            /\ Len(file.content) = 1
            /\ invoked = <<>>
            /\ stdout = <<>>
            /\ (args.format \in {"table", "text"}
                /\ Suffix(argv.output) \notin ({".json"} \cup YamlSuffixes))
                 => /\ file.content[1].enc = "json"
                    /\ file.content[1].data = info
    /\ argv.output = <<>> => file.opens = 0 /\ file.content = <<>>

C10_Witness ==
    /\ argv.format = "text" /\ argv.output = <<"report", "txt">>
    /\ CompletedNormally
    /\ file.opens = 1 /\ file.writes = 1
    /\ file.content[1].enc = "json"
    /\ Len(info.disk) = 1
====
